---- MODULE Spec2Model ----
(***************************************************************************)
(* Release-name parsing engine of tv2go (package naming).                  *)
(*                                                                         *)
(* Strings are sequences of one-character strings, so that trimming,       *)
(* replacing and integer conversion are computed character by character.   *)
(* A pattern rule's compiled regular expression is abstracted by what it   *)
(* returns on a string: either no match, or the text captured by each of   *)
(* its named groups.  A "name" (the string handed to the parser) is        *)
(* therefore the sequence, one entry per catalog rule, of that rule's      *)
(* match on the string.                                                    *)
(***************************************************************************)
EXTENDS Integers, Sequences, FiniteSets, TLC

VARIABLES pc, op, input, matchResults, res, err, slots

vars == <<pc, op, input, matchResults, res, err, slots>>

(***************************************************************************)
(* Bounds of the model.                                                    *)
(***************************************************************************)
\* Season and episode captures are the zero-padded numerals 00 .. MaxNum.
MaxNum == 1

\* Longest text over TextAlphabet handed to the text functions.
MaxLen == 4

(***************************************************************************)
(* Characters and strings.                                                 *)
(***************************************************************************)
Digits == {"0", "1", "2", "3", "4", "5", "6", "7", "8", "9"}

DigitVal(c) ==
  CASE c = "0" -> 0 [] c = "1" -> 1 [] c = "2" -> 2 [] c = "3" -> 3
    [] c = "4" -> 4 [] c = "5" -> 5 [] c = "6" -> 6 [] c = "7" -> 7
    [] c = "8" -> 8 [] c = "9" -> 9

DigitChar(n) ==
  CASE n = 0 -> "0" [] n = 1 -> "1" [] n = 2 -> "2" [] n = 3 -> "3"
    [] n = 4 -> "4" [] n = 5 -> "5" [] n = 6 -> "6" [] n = 7 -> "7"
    [] n = 8 -> "8" [] n = 9 -> "9"

Range(s) == {s[k] : k \in DOMAIN s}

\* strings.TrimLeft(s, cutset): drop every leading character that is in cutset.
RECURSIVE TrimLeft(_, _)
TrimLeft(s, cutset) ==
  IF s # <<>> /\ Head(s) \in cutset THEN TrimLeft(Tail(s), cutset) ELSE s

\* strings.TrimRight(s, cutset)
RECURSIVE TrimRight(_, _)
TrimRight(s, cutset) ==
  IF s # <<>> /\ s[Len(s)] \in cutset
    THEN TrimRight(SubSeq(s, 1, Len(s) - 1), cutset)
    ELSE s

\* strings.Trim(s, cutset)
Trim(s, cutset) == TrimRight(TrimLeft(s, cutset), cutset)

\* regexp ReplaceAllString for a one-character class: every character of the
\* class is replaced by the string repl.
RECURSIVE ReplaceClass(_, _, _)
ReplaceClass(s, class, repl) ==
  IF s = <<>> THEN <<>>
  ELSE (IF Head(s) \in class THEN repl ELSE <<Head(s)>>)
         \o ReplaceClass(Tail(s), class, repl)

\* strings.Replace(s, old, new, -1) for a two-character old: matches are taken
\* left to right and do not overlap.
RECURSIVE ReplacePair(_, _, _)
ReplacePair(s, old, new) ==
  IF Len(s) < 2 THEN s
  ELSE IF SubSeq(s, 1, 2) = old
         THEN new \o ReplacePair(SubSeq(s, 3, Len(s)), old, new)
         ELSE <<Head(s)>> \o ReplacePair(Tail(s), old, new)

\* CleanSeriesName canonicalizes a series name extracted from a file name.
CleanSeriesName(name) ==
  LET t1 == Trim(name, {" "})
      t2 == Trim(t1, {"."})
      t3 == ReplaceClass(t2, {"\\", "/", "*"}, <<"-">>)
      t4 == ReplaceClass(t3, {":", "\"", "<", ">", "|", "?"}, <<>>)
  IN  ReplacePair(t4, <<"-", "-">>, <<"-">>)

(***************************************************************************)
(* strconv.ParseInt(s, 10, 64).                                            *)
(***************************************************************************)
\* The decimal digits of 1<<63 - 1.
MaxInt64Digits ==
  <<"9","2","2","3","3","7","2","0","3","6","8","5","4","7","7","5","8","0","7">>

\* a > b for two digit strings of the same length.
RECURSIVE DigitsGreater(_, _)
DigitsGreater(a, b) ==
  IF a = <<>> THEN FALSE
  ELSE IF Head(a) # Head(b) THEN DigitVal(Head(a)) > DigitVal(Head(b))
  ELSE DigitsGreater(Tail(a), Tail(b))

\* The value of a digit string exceeds 1<<63 - 1 (the range error of ParseInt;
\* a negative number may reach 1<<63, which no capture of the model does).
OutOfRange(ds) ==
  LET sig == TrimLeft(ds, {"0"})
  IN  \/ Len(sig) > Len(MaxInt64Digits)
      \/ Len(sig) = Len(MaxInt64Digits) /\ DigitsGreater(sig, MaxInt64Digits)

RECURSIVE DecimalValue(_)
DecimalValue(ds) ==
  IF ds = <<>> THEN 0
  ELSE 10 * DecimalValue(SubSeq(ds, 1, Len(ds) - 1)) + DigitVal(ds[Len(ds)])

\* [err |-> TRUE] on a syntax or range error, else the value.
ParseInt(s) ==
  LET neg == s # <<>> /\ Head(s) = "-"
      ds  == IF s # <<>> /\ Head(s) \in {"+", "-"} THEN Tail(s) ELSE s
  IN  IF ds = <<>> \/ ~(Range(ds) \subseteq Digits) \/ OutOfRange(ds)
        THEN [err |-> TRUE, val |-> 0]
        ELSE [err |-> FALSE,
              val |-> IF neg THEN 0 - DecimalValue(ds) ELSE DecimalValue(ds)]

(***************************************************************************)
(* Dates.  A time.Time is modelled by its UTC calendar date.               *)
(***************************************************************************)
\* The zero value of time.Time: January 1, year 1.
ZeroTime == <<1, 1, 1>>

\* time.Date(year, month, day, 0, 0, 0, 0, time.UTC) for a date in range.
Date(year, month, day) == <<year, month, day>>

\* The decimal numbers of a string, in order, split at every other character.
RECURSIVE NumberParts(_, _)
NumberParts(s, cur) ==
  IF s = <<>> THEN (IF cur = <<>> THEN <<>> ELSE <<DecimalValue(cur)>>)
  ELSE IF Head(s) \in Digits THEN NumberParts(Tail(s), Append(cur, Head(s)))
  ELSE (IF cur = <<>> THEN <<>> ELSE <<DecimalValue(cur)>>)
         \o NumberParts(Tail(s), <<>>)

\* The number the layout format assigns to component c, 0 if it names none.
Component(format, parts, c) ==
  IF \E k \in DOMAIN format : format[k] = c
    THEN parts[CHOOSE k \in DOMAIN format : format[k] = c]
    ELSE 0

YMD(format, parts) ==
  [year  |-> Component(format, parts, "Y"),
   month |-> Component(format, parts, "M"),
   day   |-> Component(format, parts, "D")]

\* The layout for a string holding n numbers.
FormatFor(formats, n) == IF n + 1 \in DOMAIN formats THEN formats[n + 1] ELSE <<>>

PartsYMD(formats, parts) == YMD(FormatFor(formats, Len(parts)), parts)

\* brimtime.TranslateYMD(m, formats): the layout is chosen by how many numbers
\* the string holds; a component the layout does not name is 0.
TranslateYMD(m, formats) == PartsYMD(formats, NumberParts(m, <<>>))

(***************************************************************************)
(* ParseResult and the pattern catalog.                                    *)
(***************************************************************************)
\* The zero value of quality.Quality.
QualityZero == "zero"

\* &ParseResult{}: every field at its zero value.
EmptyParseResult ==
  [OriginalName           |-> <<>>,
   SeriesName             |-> <<>>,
   SeasonNumber           |-> 0,
   EpisodeNumbers         |-> <<>>,
   ExtraInfo              |-> <<>>,
   ReleaseGroup           |-> <<>>,
   AirDate                |-> ZeroTime,
   AbsoluteEpisodeNumbers |-> <<>>,
   Score                  |-> 0,
   Quality                |-> QualityZero,
   Version                |-> <<>>,
   RegexUsed              |-> ""]

knownMatches ==
  {"series_name", "season_num", "ep_num", "ep_ab_num", "extra_ep_num",
   "extra_ab_ep_num", "extra_info", "release_group", "air_date", "series_num"}

\* The catalog handed to NewNameParser.  Regex is the set of named groups the
\* rule's pattern declares.
Regexes ==
  << [Name  |-> "season_ep",
      Regex |-> {"series_name", "season_num", "ep_num", "extra_ep_num"}],
     [Name  |-> "air_date",
      Regex |-> {"series_name", "air_date", "release_group"}],
     [Name  |-> "absolute",
      Regex |-> {"series_num", "ep_ab_num", "extra_ab_ep_num", "extra_info",
                 "version"}] >>

\* m.Matches() is false.
NoMatch == [matches |-> FALSE]

\* A match: the text of every named group of the pattern (<<>> for a group
\* that took no part in the match).
Match(groups) == [matches |-> TRUE, groups |-> groups]

\* regexNamedMatch extracting every named group of the pattern.
regexNamedMatch_EveryGroup(m) ==
  IF ~m.matches THEN <<>>
  ELSE [g \in {n \in DOMAIN m.groups : m.groups[n] # <<>>} |-> m.groups[g]]

\* regexNamedMatch: the non-empty captures of the known groups (the ok result
\* is m.matches).
regexNamedMatch(m) ==
  IF ~m.matches THEN <<>>
  ELSE [g \in {n \in knownMatches :
                 n \in DOMAIN m.groups /\ m.groups[n] # <<>>} |-> m.groups[g]]

(***************************************************************************)
(* parseString: the loop body, one operator per captured field, in the     *)
(* order of the code.  A step takes and returns [skip, pr]: pr is the      *)
(* candidate built so far, skip the loop's "continue" (the rule yields no  *)
(* candidate and the rest of the body is not run).                         *)
(***************************************************************************)
\* pr := ParseResult{OriginalName: name, RegexUsed: r.Name, Score: 0 - i};
\* k is the rule's position in Regexes counted from 1, so i = k - 1.
NewCandidate(name, k) ==
  [skip |-> FALSE,
   pr   |-> [EmptyParseResult EXCEPT !.OriginalName = name,
                                     !.RegexUsed    = Regexes[k].Name,
                                     !.Score        = 0 - (k - 1)]]

Continue(step) == [step EXCEPT !.skip = TRUE]

SetSeriesName(step, matches) ==
  IF ~step.skip /\ "series_name" \in DOMAIN matches
    THEN [step EXCEPT
            !.pr.SeriesName = CleanSeriesName(matches["series_name"]),
            !.pr.Score      = @ + 1]
    ELSE step

SetSeriesNum(step, matches) ==
  IF ~step.skip /\ "series_num" \in DOMAIN matches
    THEN [step EXCEPT !.pr.Score = @ + 1]
    ELSE step

\* pr.SeasonNumber = sn; pr.Score++, or continue on a conversion error.
StoreSeasonNumber(step, sn) ==
  IF sn.err THEN Continue(step)
  ELSE [step EXCEPT !.pr.SeasonNumber = sn.val, !.pr.Score = @ + 1]

SetSeasonNumber(step, matches) ==
  IF ~step.skip /\ "season_num" \in DOMAIN matches
    THEN StoreSeasonNumber(step,
                           ParseInt(TrimLeft(matches["season_num"], {"0"})))
    ELSE step

\* The episode numbers once ep_num converted to en: with an extra_ep_num
\* capture they are set only if that converts too.
StoreEpisodeNumbers(step, en, hasExtra, extraEpCvt) ==
  IF en.err THEN Continue(step)
  ELSE IF hasExtra
    THEN (IF extraEpCvt.err THEN step
          ELSE [step EXCEPT !.pr.EpisodeNumbers = <<en.val, extraEpCvt.val>>])
    ELSE [step EXCEPT !.pr.EpisodeNumbers = <<en.val>>]

SetEpisodeNumbers(step, matches) ==
  IF ~step.skip /\ "ep_num" \in DOMAIN matches
    THEN StoreEpisodeNumbers(
           step,
           ParseInt(TrimLeft(matches["ep_num"], {"0"})),
           "extra_ep_num" \in DOMAIN matches,
           IF "extra_ep_num" \in DOMAIN matches
             THEN ParseInt(matches["extra_ep_num"])
             ELSE [err |-> TRUE, val |-> 0])
    ELSE step

\* StoreAbsoluteEpisodeNumbers keeping the candidate on a conversion error.
StoreAbsoluteEpisodeNumbers_NoSkip(step, en) ==
  IF en.err THEN step
  ELSE [step EXCEPT !.pr.AbsoluteEpisodeNumbers = <<en.val>>]

StoreAbsoluteEpisodeNumbers(step, en) ==
  IF en.err THEN Continue(step)
  ELSE [step EXCEPT !.pr.AbsoluteEpisodeNumbers = <<en.val>>]

SetAbsoluteEpisodeNumbers(step, matches) ==
  IF ~step.skip /\ "ep_ab_num" \in DOMAIN matches
    THEN StoreAbsoluteEpisodeNumbers(step, ParseInt(matches["ep_ab_num"]))
    ELSE step

StoreAirDate(step, ymd) ==
  IF ymd.year # 0 /\ ymd.month # 0
    THEN [step EXCEPT !.pr.AirDate = Date(ymd.year, ymd.month, ymd.day),
                      !.pr.Score   = @ + 1]
    ELSE Continue(step)

SetAirDate(step, matches) ==
  IF ~step.skip /\ "air_date" \in DOMAIN matches
    THEN StoreAirDate(step,
                      TranslateYMD(matches["air_date"],
                                   << <<>>, <<"D">>, <<"M", "D">>,
                                      <<"Y", "M", "D">> >>))
    ELSE step

\* SetReleaseGroup without the point for the release group.
SetReleaseGroup_NoPoint(step, matches) ==
  IF ~step.skip /\ "release_group" \in DOMAIN matches
    THEN [step EXCEPT !.pr.ReleaseGroup = matches["release_group"]]
    ELSE step

SetReleaseGroup(step, matches) ==
  IF ~step.skip /\ "release_group" \in DOMAIN matches
    THEN [step EXCEPT !.pr.ReleaseGroup = matches["release_group"],
                      !.pr.Score        = @ + 1]
    ELSE step

SetVersion(step, matches) ==
  IF ~step.skip /\ "version" \in DOMAIN matches
    THEN [step EXCEPT !.pr.Version = matches["version"]]
    ELSE step

\* The body of the loop for rule k once its pattern matched.
BuildCandidate(name, k, matches) ==
  SetVersion(
    SetReleaseGroup(
      SetAirDate(
        SetAbsoluteEpisodeNumbers(
          SetEpisodeNumbers(
            SetSeasonNumber(
              SetSeriesNum(
                SetSeriesName(NewCandidate(name, k), matches),
                matches),
              matches),
            matches),
          matches),
        matches),
      matches),
    matches)

\* matchResults = append(matchResults, pr), unless the rule did not match or
\* the body ended in continue.
AppendCandidate(ok, c) == IF ok /\ ~c.skip THEN <<c.pr>> ELSE <<>>

\* for i, r := range np.Regexes { ... matchResults = append(matchResults, pr) }
RECURSIVE CandidatesFrom(_, _)
CandidatesFrom(name, k) ==
  IF k > Len(Regexes) THEN <<>>
  ELSE AppendCandidate(name[k].matches,
                       BuildCandidate(name, k, regexNamedMatch(name[k])))
         \o CandidatesFrom(name, k + 1)

\* Less with the comparison turned around.
Less_Reversed(a, b) == a.Score > b.Score

\* byScore.Less
Less(a, b) == a.Score < b.Score

\* sort.Sort(sort.Reverse(byScore(matchResults))): sort.Sort is not stable, so
\* any arrangement in which no element precedes one that sorts before it
\* may come out.
SortedOrders(cands) ==
  {s \in [DOMAIN cands -> Range(cands)] :
     /\ \A c \in Range(cands) : \E k \in DOMAIN s : s[k] = c
     /\ \A a, b \in DOMAIN s : a < b => ~Less(s[a], s[b])}

\* BestOf taking a single candidate for none.
BestOf_NeedsTwo(cands) ==
  IF Len(cands) > 1
    THEN {[res |-> s[1], err |-> FALSE, matchResults |-> cands] :
            s \in SortedOrders(cands)}
    ELSE {[res |-> EmptyParseResult, err |-> TRUE, matchResults |-> cands]}

\* The returns of parseString once the loop has built cands: the first
\* element after the sort, or an empty ParseResult and the error.
BestOf(cands) ==
  IF Len(cands) > 0
    THEN {[res |-> s[1], err |-> FALSE, matchResults |-> cands] :
            s \in SortedOrders(cands)}
    ELSE {[res |-> EmptyParseResult, err |-> TRUE, matchResults |-> cands]}

\* The returns parseString can make on name: the result, the error, and the
\* candidates as appended by the loop.
parseString(name) == BestOf(CandidatesFrom(name, 1))

(***************************************************************************)
(* Parse and ParseFile.                                                    *)
(***************************************************************************)
\* Parse: the error of parseString is dropped, the quality q found by
\* quality.QualityFromName is attached.
Parse(name, q) ==
  {[r EXCEPT !.res = [r.res EXCEPT !.Quality = q]] : r \in parseString(name)}

\* reflect.Value.Kind() of the ParseResult fields that are merged.
Kind(field) ==
  CASE field \in {"SeriesName", "ExtraInfo", "ReleaseGroup", "Version"} -> "String"
    [] field \in {"EpisodeNumbers", "AbsoluteEpisodeNumbers"} -> "Slice"
    [] field = "SeasonNumber" -> "Int64"
    [] field = "AirDate" -> "Struct"

\* isEmptyValue, from encoding/json: a struct is never empty.
isEmptyValue(field, v) ==
  CASE Kind(field) \in {"Array", "Map", "Slice", "String"} -> Len(v) = 0
    [] Kind(field) \in {"Int", "Int8", "Int16", "Int32", "Int64"} -> v = 0
    [] OTHER -> FALSE

\* combineResults keeping the seeded value when neither source has one.
combineResults_KeepSeed(finalRes, fileRes, dirRes, field) ==
  IF field \notin DOMAIN finalRes THEN finalRes
  ELSE IF ~isEmptyValue(field, fileRes[field])
         THEN [finalRes EXCEPT ![field] = fileRes[field]]
         ELSE IF ~isEmptyValue(field, dirRes[field])
                THEN [finalRes EXCEPT ![field] = dirRes[field]]
                ELSE finalRes

\* combineResults giving up when the preferred source is an empty result.
combineResults_NeedsBoth(finalRes, fileRes, dirRes, field) ==
  IF field \notin DOMAIN finalRes \/ fileRes = EmptyParseResult THEN finalRes
  ELSE IF ~isEmptyValue(field, fileRes[field])
         THEN [finalRes EXCEPT ![field] = fileRes[field]]
         ELSE [finalRes EXCEPT ![field] = dirRes[field]]

\* combineResults: finalRes after the call.  A field name ParseResult does
\* not have leaves it unchanged (the error return).
combineResults(finalRes, fileRes, dirRes, field) ==
  IF field \notin DOMAIN finalRes THEN finalRes
  ELSE IF ~isEmptyValue(field, fileRes[field])
         THEN [finalRes EXCEPT ![field] = fileRes[field]]
         ELSE [finalRes EXCEPT ![field] = dirRes[field]]

\* The eight combineResults calls of ParseFile and the quality assignment.
Reconcile(finalRes, fileNameResult, dirNameResult, q) ==
  LET r1 == combineResults(finalRes, fileNameResult, dirNameResult, "AirDate")
      r2 == combineResults(r1, fileNameResult, dirNameResult, "AbsoluteEpisodeNumbers")
      r3 == combineResults(r2, fileNameResult, dirNameResult, "SeasonNumber")
      r4 == combineResults(r3, fileNameResult, dirNameResult, "EpisodeNumbers")
      r5 == combineResults(r4, dirNameResult, fileNameResult, "SeriesName")
      r6 == combineResults(r5, dirNameResult, fileNameResult, "ExtraInfo")
      r7 == combineResults(r6, dirNameResult, fileNameResult, "ReleaseGroup")
      r8 == combineResults(r7, dirNameResult, fileNameResult, "Version")
  IN  [r8 EXCEPT !.Quality = q]

\* ParseFile seeding the final result from the file-name parse.
ParseFile_SeedFromFileName(fileName, dirNameBase, name, q) ==
  {[fileNameResult |-> f, dirNameResult |-> d, finalRes |-> r,
    res |-> Reconcile(f.res, f.res, d.res, q)] :
     f \in parseString(fileName), d \in parseString(dirNameBase),
     r \in parseString(name)}

\* ParseFile on a path whose extension-stripped file name is fileName and
\* whose directory base is dirNameBase: the three parseString returns and the
\* value returned.
ParseFile(fileName, dirNameBase, name, q) ==
  {[fileNameResult |-> f, dirNameResult |-> d, finalRes |-> r,
    res |-> Reconcile(r.res, f.res, d.res, q)] :
     f \in parseString(fileName), d \in parseString(dirNameBase),
     r \in parseString(name)}

(***************************************************************************)
(* The string sanitizer and the media-file classifier.                     *)
(***************************************************************************)
UpperLetters ==
  <<"A","B","C","D","E","F","G","H","I","J","K","L","M",
    "N","O","P","Q","R","S","T","U","V","W","X","Y","Z">>
LowerLetters ==
  <<"a","b","c","d","e","f","g","h","i","j","k","l","m",
    "n","o","p","q","r","s","t","u","v","w","x","y","z">>

\* strings.ToLower, on the characters of a string.
ToLowerChar(c) ==
  IF \E k \in DOMAIN UpperLetters : UpperLetters[k] = c
    THEN LowerLetters[CHOOSE k \in DOMAIN UpperLetters : UpperLetters[k] = c]
    ELSE c
ToLower(s) == [k \in DOMAIN s |-> ToLowerChar(s[k])]

\* The class [\W_] of a regular expression: no letter and no digit.
NonWordOrUnderscore(c) ==
  c \notin Range(UpperLetters) \cup Range(LowerLetters) \cup Digits

\* strings.HasPrefix and strings.HasSuffix
HasPrefix(s, prefix) ==
  Len(s) >= Len(prefix) /\ SubSeq(s, 1, Len(prefix)) = prefix
HasSuffix(s, suffix) ==
  Len(s) >= Len(suffix)
    /\ SubSeq(s, Len(s) - Len(suffix) + 1, Len(s)) = suffix

\* strings.TrimSuffix
TrimSuffix(s, suffix) ==
  IF HasSuffix(s, suffix) THEN SubSeq(s, 1, Len(s) - Len(suffix)) ELSE s

\* strings.Replace(s, old, new, -1) for a non-empty old: matches are taken
\* left to right and do not overlap.
RECURSIVE Replace(_, _, _)
Replace(s, old, new) ==
  IF Len(s) < Len(old) THEN s
  ELSE IF SubSeq(s, 1, Len(old)) = old
         THEN new \o Replace(SubSeq(s, Len(old) + 1, Len(s)), old, new)
         ELSE <<Head(s)>> \o Replace(Tail(s), old, new)

\* for _, str := range bad_chars { name = strings.Replace(name, str, "", -1) }
RECURSIVE RemoveEach(_, _)
RemoveEach(name, bad_chars) ==
  IF bad_chars = <<>> THEN name
  ELSE RemoveEach(Replace(name, <<Head(bad_chars)>>, <<>>), Tail(bad_chars))

\* dotreplace.ReplaceAllString(name, "."), dotreplace being \.\.*: every run
\* of periods becomes one period.
RECURSIVE CollapseDots(_)
CollapseDots(s) ==
  IF s = <<>> THEN <<>>
  ELSE IF Head(s) = "." THEN <<".">> \o CollapseDots(TrimLeft(s, {"."}))
  ELSE <<Head(s)>> \o CollapseDots(Tail(s))

\* SanitizeSceneName.  The value of dotreplace.ReplaceAllString is dropped by
\* the code, so CollapseDots has no part in the result.
SanitizeSceneName(name) ==
  TrimSuffix(
    Replace(
      Replace(
        Replace(
          Replace(
            RemoveEach(name, <<",", ":", "(", ")", "!", "?", "'">>),
            <<"-", " ">>, <<".">>),
          <<" ">>, <<".">>),
        <<"&">>, <<"a", "n", "d">>),
      <<"/">>, <<".">>),
    <<".">>)

mediaExtensions ==
  {<<"a", "v", "i">>, <<"m", "k", "v">>, <<"m", "p", "g">>,
   <<"m", "p", "e", "g">>, <<"w", "m", "v">>, <<"o", "g", "m">>,
   <<"m", "p", "4">>, <<"i", "s", "o">>, <<"i", "m", "g">>,
   <<"d", "i", "v", "x">>, <<"m", "2", "t", "s">>, <<"m", "4", "v">>,
   <<"t", "s">>, <<"f", "l", "v">>, <<"f", "4", "v">>, <<"m", "o", "v">>,
   <<"r", "m", "v", "b">>, <<"v", "o", "b">>,
   <<"d", "v", "r", "-", "m", "s">>, <<"w", "t", "v">>, <<"o", "g", "v">>,
   <<"3", "g", "p">>, <<"w", "e", "b", "m">>}

\* IsMediaExtension without the lower-casing.
IsMediaExtension_CaseSensitive(extension) ==
  TrimLeft(extension, {"."}) \in mediaExtensions

\* IsMediaExtension checks if the given string matches a known media file
\* extension.
IsMediaExtension(extension) ==
  ToLower(TrimLeft(extension, {"."})) \in mediaExtensions

\* filepath.Ext: the suffix of path from the last period of its last element,
\* empty if there is none; i runs from the end of path towards its start.
RECURSIVE ExtFrom(_, _)
ExtFrom(path, i) ==
  IF i < 1 \/ path[i] = "/" THEN <<>>
  ELSE IF path[i] = "." THEN SubSeq(path, i, Len(path))
  ELSE ExtFrom(path, i - 1)

Ext(path) == ExtFrom(path, Len(path))

stripExtension(fname) == SubSeq(fname, 1, Len(fname) - Len(Ext(fname)))

\* The rest of sampleRegex after "sample" matched: \d* and then [\W_]; rest is
\* the text that follows.
SampleTail(rest) ==
  TrimLeft(rest, Digits) # <<>>
    /\ NonWordOrUnderscore(Head(TrimLeft(rest, Digits)))

\* sampleRegex matches with (sample\d*) starting at position i.
SampleAt(s, i) ==
  /\ i + 5 <= Len(s)
  /\ ToLower(SubSeq(s, i, i + 5)) = <<"s", "a", "m", "p", "l", "e">>
  /\ (i = 1 \/ NonWordOrUnderscore(s[i - 1]))
  /\ SampleTail(SubSeq(s, i + 6, Len(s)))

\* sampleRegex.MatchString: (?i)(^|[\W_])(sample\d*)[\W_]
sampleRegex(s) == \E i \in DOMAIN s : SampleAt(s, i)

\* extrasRegex.MatchString: (?i)extras?$
extrasRegex(s) ==
  \/ HasSuffix(ToLower(s), <<"e", "x", "t", "r", "a">>)
  \/ HasSuffix(ToLower(s), <<"e", "x", "t", "r", "a", "s">>)

\* IsMediaFile checks if the given string is a media file.
IsMediaFile(filename) ==
  IF sampleRegex(filename) THEN FALSE
  ELSE IF HasPrefix(filename, <<".", "_">>) THEN FALSE
  ELSE IF extrasRegex(stripExtension(filename)) THEN FALSE
  ELSE IsMediaExtension(Ext(filename))

(***************************************************************************)
(* Inputs.                                                                 *)
(***************************************************************************)
\* The zero-padded numerals 00 .. MaxNum.
Numerals == {<<"0", DigitChar(n)>> : n \in 0..MaxNum}

\* A numeral beyond the 64-bit range (twenty nines).
Overlong == [k \in 1..20 |-> "9"]

SeriesCaptures == {<<>>, <<" ", "A", "/", "*", "B", ".">>}
NumberCaptures == {<<>>, <<"x">>} \cup Numerals
ExtraCaptures  == {<<>>, <<"0", "2">>, <<"y">>}
AbsCaptures    == {<<>>, <<"1", "2">>, Overlong}
DateCaptures   == {<<>>, <<"4">>,
                   <<"2","0","1","5","-","0","3","-","0","4">>,
                   <<"2","0","1","5","-","0","0","-","0","4">>}
Optional(s)    == {<<>>, s}

\* What rule k's pattern can return on the strings of the model.
StringMatches(k) ==
  {NoMatch} \cup
  CASE k = 1 ->
         {Match([series_name |-> a, season_num |-> b, ep_num |-> c,
                 extra_ep_num |-> d]) :
            a \in SeriesCaptures, b \in NumberCaptures, c \in NumberCaptures,
            d \in ExtraCaptures}
    [] k = 2 ->
         {Match([series_name |-> a, air_date |-> b, release_group |-> c]) :
            a \in SeriesCaptures, b \in DateCaptures, c \in Optional(<<"G">>)}
    [] k = 3 ->
         {Match([series_num |-> a, ep_ab_num |-> b, extra_ab_ep_num |-> c,
                 extra_info |-> t[1], version |-> t[2]]) :
            a \in Optional(<<"2">>), b \in AbsCaptures,
            c \in Optional(<<"1", "3">>),
            t \in {<< <<>>, <<>> >>, << <<"i">>, <<"v", "2">> >>}}

\* The strings handed to parseString and Parse.
Names == {<<m1, m2, m3>> : m1 \in StringMatches(1), m2 \in StringMatches(2),
                           m3 \in StringMatches(3)}

\* What rule k's pattern returns on the path components of the model.
FileMatches(k) ==
  {NoMatch} \cup
  CASE k = 1 ->
         {Match([series_name |-> <<"A">>, season_num |-> <<"0", "1">>,
                 ep_num |-> <<"0", "1">>, extra_ep_num |-> <<>>]),
          Match([series_name |-> <<>>, season_num |-> <<"0", "2">>,
                 ep_num |-> <<"0", "3">>, extra_ep_num |-> <<"0", "4">>])}
    [] k = 2 ->
         {Match([series_name |-> <<>>, release_group |-> <<"G">>,
                 air_date |-> <<"2","0","1","5","-","0","3","-","0","4">>]),
          Match([series_name |-> <<"B">>, release_group |-> <<"H">>,
                 air_date |-> <<"2","0","1","6","-","0","1","-","0","2">>])}
    [] k = 3 ->
         {Match([series_num |-> <<>>, ep_ab_num |-> <<"1", "2">>,
                 extra_ab_ep_num |-> <<"1", "3">>, extra_info |-> <<"i">>,
                 version |-> <<"v", "2">>]),
          Match([series_num |-> <<"2">>, ep_ab_num |-> <<"1", "4">>,
                 extra_ab_ep_num |-> <<>>, extra_info |-> <<>>,
                 version |-> <<>>])}

\* The strings a path of the model splits into.
FileNames == {<<m1, m2, m3>> : m1 \in FileMatches(1), m2 \in FileMatches(2),
                               m3 \in FileMatches(3)}

\* What quality.QualityFromName can return.
Qualities == {"UNKNOWN", "HDTV"}

(***************************************************************************)
(* The state machine: one call on a parser built over Regexes.             *)
(***************************************************************************)
NoSlots == [fileNameResult |-> <<>>, dirNameResult |-> <<>>, finalRes |-> <<>>]

Init ==
  /\ pc = "call"
  /\ op = "none"
  /\ \/ \E n \in Names : input = [kind |-> "string", name |-> n]
     \/ \E f \in FileNames, d \in FileNames, n \in FileNames :
          input = [kind |-> "path", fileName |-> f, dirNameBase |-> d,
                   name |-> n]
  /\ matchResults = <<>>
  /\ res = EmptyParseResult
  /\ err = FALSE
  /\ slots = NoSlots

\* np.parseString(name)
CallParseString ==
  /\ pc = "call"
  /\ input.kind = "string"
  /\ \E r \in parseString(input.name) :
       /\ res' = r.res
       /\ err' = r.err
       /\ matchResults' = r.matchResults
  /\ op' = "parseString"
  /\ pc' = "return"
  /\ UNCHANGED <<input, slots>>

\* np.Parse(name)
CallParse ==
  /\ pc = "call"
  /\ input.kind = "string"
  /\ \E q \in Qualities : \E r \in Parse(input.name, q) :
       /\ res' = r.res
       /\ matchResults' = r.matchResults
  /\ err' = FALSE
  /\ op' = "Parse"
  /\ pc' = "return"
  /\ UNCHANGED <<input, slots>>

\* np.ParseFile(name)
CallParseFile ==
  /\ pc = "call"
  /\ input.kind = "path"
  /\ \E q \in Qualities :
       \E r \in ParseFile(input.fileName, input.dirNameBase, input.name, q) :
         /\ res' = r.res
         /\ matchResults' = r.finalRes.matchResults
         /\ slots' = [fileNameResult |-> r.fileNameResult,
                      dirNameResult  |-> r.dirNameResult,
                      finalRes       |-> r.finalRes]
  /\ err' = FALSE
  /\ op' = "ParseFile"
  /\ pc' = "return"
  /\ UNCHANGED input

Next == CallParseString \/ CallParse \/ CallParseFile

Spec == Init /\ [][Next]_vars

(***************************************************************************)
(* The text functions applied to bounded texts.                            *)
(***************************************************************************)
TextAlphabet == {"A", " ", ".", "-", "/", "*", ":", "&"}

\* Every text over TextAlphabet of at most MaxLen characters.
Texts == UNION {[1..n -> TextAlphabet] : n \in 0..MaxLen}

\* Texts with the characters TextAlphabet leaves out.
ExampleTexts ==
  {<<"S", "h", "o", "w", ":", " ", "P", "a", "r", "t", " ", "(", "2", ")">>,
   <<" ", " ", "T", "h", "e", ".", "S", "h", "o", "w", " ", " ">>,
   <<"A", "/", "B", "\\", "C">>,
   <<"a", ",", " ", "b", "!", " ", "c", "?", " ", "d", "'", "e">>,
   <<"A", "/", "*", "\\", "B">>, <<"x", ":", "\"", "<", ">", "|", "?", "y">>,
   <<"A", " ", "-", " ", "B", " ", "&", " ", "C">>}

\* File names: a beginning, a stem and an ending.
Beginnings ==
  {<<>>, <<".", "_">>, <<"a", "-">>, <<"a">>, <<"a", "_">>, <<"d", "/">>}
Stems ==
  {<<"s", "a", "m", "p", "l", "e">>,
   <<"S", "a", "m", "p", "l", "e", "1", "2">>,
   <<"S", "A", "M", "P", "L", "E">>, <<"s", "h", "o", "w">>,
   <<"e", "x", "t", "r", "a", "s">>, <<"E", "x", "t", "r", "a">>,
   <<"s", "0", "1", "e", "0", "1">>}
Endings ==
  {<<>>, <<".", "m", "k", "v">>, <<".", "M", "K", "V">>, <<".", "T", "s">>,
   <<".", "t", "x", "t">>, <<".">>, <<"-", "x", ".", "m", "p", "4">>,
   <<"_", ".", "w", "e", "b", "m">>, <<".", ".", "a", "v", "i">>,
   <<".", "d", "v", "r", "-", "m", "s">>}
MediaNames ==
  {b \o m \o e : b \in Beginnings, m \in Stems, e \in Endings}
    \cup {<<"m", "o", "v", "i", "e", "-", "s", "a", "m", "p", "l", "e", ".", "m", "k", "v">>,
          <<".", "_", "r", "e", "s", "o", "u", "r", "c", "e", ".", "a", "v", "i">>,
          <<"s", "h", "o", "w", ".", "s", "0", "1", "e", "0", "1", ".", "m", "k", "v">>}

InitText ==
  /\ pc = "call"
  /\ op = "none"
  /\ \E s \in Texts \cup ExampleTexts \cup MediaNames :
       input = [kind |-> "text", text |-> s]
  /\ matchResults = <<>>
  /\ res = EmptyParseResult
  /\ err = FALSE
  /\ slots = NoSlots

CallSanitizeSceneName ==
  /\ pc = "call"
  /\ input.kind = "text"
  /\ res' = SanitizeSceneName(input.text)
  /\ op' = "SanitizeSceneName"
  /\ pc' = "return"
  /\ UNCHANGED <<input, matchResults, err, slots>>

CallCleanSeriesName ==
  /\ pc = "call"
  /\ input.kind = "text"
  /\ res' = CleanSeriesName(input.text)
  /\ op' = "CleanSeriesName"
  /\ pc' = "return"
  /\ UNCHANGED <<input, matchResults, err, slots>>

CallIsMediaFile ==
  /\ pc = "call"
  /\ input.kind = "text"
  /\ res' = IsMediaFile(input.text)
  /\ op' = "IsMediaFile"
  /\ pc' = "return"
  /\ UNCHANGED <<input, matchResults, err, slots>>

NextText == CallSanitizeSceneName \/ CallCleanSeriesName \/ CallIsMediaFile

SpecText == InitText /\ [][NextText]_vars

(***************************************************************************)
(* Vocabulary of the properties.                                           *)
(***************************************************************************)
Returned(o) == pc = "return" /\ op = o

\* The captures rule k extracted from the string parsed into matchResults.
Captures(k) == regexNamedMatch(input.name[k])

Matched(k) == input.name[k].matches

HasCapture(k, g) == Matched(k) /\ g \in DOMAIN Captures(k)

HasCandidate(k) == \E c \in Range(matchResults) : c.RegexUsed = Regexes[k].Name

CandidateOf(k) ==
  CHOOSE c \in Range(matchResults) : c.RegexUsed = Regexes[k].Name

\* A capture that is a non-empty string of decimal digits within 64 bits.
IsNumeral(c) == c # <<>> /\ Range(c) \subseteq Digits /\ ~OutOfRange(c)

\* The conversions of rule k's captures, as parseString attempts them.
SeasonFails(k) ==
  HasCapture(k, "season_num")
    /\ ParseInt(TrimLeft(Captures(k)["season_num"], {"0"})).err
EpisodeFails(k) ==
  HasCapture(k, "ep_num")
    /\ ParseInt(TrimLeft(Captures(k)["ep_num"], {"0"})).err
AbsoluteFails(k) ==
  HasCapture(k, "ep_ab_num") /\ ParseInt(Captures(k)["ep_ab_num"]).err
AirDateFails(k) ==
  HasCapture(k, "air_date")
    /\ \/ NumberParts(Captures(k)["air_date"], <<>>) = <<>>
       \/ Len(NumberParts(Captures(k)["air_date"], <<>>)) < 3
       \/ 0 \in {NumberParts(Captures(k)["air_date"], <<>>)[1],
                 NumberParts(Captures(k)["air_date"], <<>>)[2]}
ExtraFails(k) ==
  HasCapture(k, "extra_ep_num") /\ ParseInt(Captures(k)["extra_ep_num"]).err

ConversionFails(k) ==
  SeasonFails(k) \/ EpisodeFails(k) \/ AbsoluteFails(k) \/ AirDateFails(k)

\* The bonus points rule k's captures earn: one per scoring field present.
ScoringGroups ==
  {"series_name", "series_num", "season_num", "air_date", "release_group"}
BonusPoints(k) == Cardinality(ScoringGroups \cap DOMAIN Captures(k))

\* The fields ParseFile merges, and the emptiness of a value of each: empty
\* string, empty sequence, zero number, unset date.
PathFields ==
  {"AirDate", "AbsoluteEpisodeNumbers", "SeasonNumber", "EpisodeNumbers"}
DescriptiveFields == {"SeriesName", "ExtraInfo", "ReleaseGroup", "Version"}
MergedFields == PathFields \cup DescriptiveFields

IsUnset(field, v) ==
  CASE field = "AirDate" -> v = ZeroTime
    [] field = "SeasonNumber" -> v = 0
    [] OTHER -> v = <<>>

\* The three parseString results ParseFile merged.
FileRes == slots.fileNameResult.res
DirRes  == slots.dirNameResult.res
FullRes == slots.finalRes.res

(***************************************************************************)
(* C1.  As claimed: in ParseFile's merge, a merged field that the          *)
(* full-path parse populated and that both the file-name parse and the     *)
(* directory parse left empty keeps the full-path value in the result.     *)
(***************************************************************************)
C1_FullPathValueKept ==
  Returned("ParseFile") =>
    \A f \in MergedFields :
      (/\ ~IsUnset(f, FullRes[f])
       /\ IsUnset(f, FileRes[f])
       /\ IsUnset(f, DirRes[f])) => res[f] = FullRes[f]

\* C1 as amended: a merged field that both the file-name parse and the
\* directory parse left empty is empty in the result, whatever the
\* full-path parse produced for it.
C1_EmptySourcesGiveEmptyField ==
  Returned("ParseFile") =>
    \A f \in MergedFields :
      (IsUnset(f, FileRes[f]) /\ IsUnset(f, DirRes[f])) => IsUnset(f, res[f])

C1_Witness ==
  /\ Returned("ParseFile")
  /\ \E f \in MergedFields :
       /\ ~IsUnset(f, FullRes[f])
       /\ IsUnset(f, FileRes[f])
       /\ IsUnset(f, DirRes[f])
       /\ IsUnset(f, res[f])

(***************************************************************************)
(* C2.  ParseFile's merge precedence: each path-shaped field of the result *)
(* is the file-name parse's value when that is non-empty, else the         *)
(* directory parse's; each descriptive field is the directory parse's      *)
(* value when that is non-empty, else the file-name parse's.               *)
(***************************************************************************)
C2_MergePrecedence ==
  Returned("ParseFile") =>
    /\ \A f \in PathFields :
         res[f] = IF ~IsUnset(f, FileRes[f]) THEN FileRes[f] ELSE DirRes[f]
    /\ \A f \in DescriptiveFields :
         res[f] = IF ~IsUnset(f, DirRes[f]) THEN DirRes[f] ELSE FileRes[f]

(***************************************************************************)
(* C3.  Multi-episode capture: a rule whose primary episode capture        *)
(* converts to p and that also captured a secondary episode number yields  *)
(* a candidate with EpisodeNumbers <<p, s>> when the secondary converts to *)
(* s, and is not skipped and yields EpisodeNumbers <<p>> when it does not. *)
(***************************************************************************)
C3_MultiEpisode ==
  pc = "return" =>
    \A k \in DOMAIN Regexes :
      (/\ HasCapture(k, "ep_num") /\ ~EpisodeFails(k)
       /\ HasCapture(k, "extra_ep_num")
       /\ ~ConversionFails(k)) =>
        /\ HasCandidate(k)
        /\ CandidateOf(k).EpisodeNumbers =
             IF ExtraFails(k)
               THEN <<DecimalValue(Captures(k)["ep_num"])>>
               ELSE <<DecimalValue(Captures(k)["ep_num"]),
                      DecimalValue(Captures(k)["extra_ep_num"])>>

(***************************************************************************)
(* C4.  As claimed: the result of ParseFile has RegexUsed equal to the     *)
(* name of the rule that won the parse of the extension-stripped file      *)
(* name.                                                                   *)
(***************************************************************************)
C4_RegexUsedOfFileName ==
  Returned("ParseFile") => res.RegexUsed = FileRes.RegexUsed

\* C4 as amended: the result of ParseFile has RegexUsed equal to the name of
\* the rule that won the parse of the full path (empty when no rule yielded
\* a candidate for the full path).
C4_RegexUsedOfFullPath ==
  Returned("ParseFile") =>
    /\ res.RegexUsed = FullRes.RegexUsed
    /\ slots.finalRes.err => res.RegexUsed = ""
    /\ ~slots.finalRes.err =>
         \E k \in DOMAIN Regexes :
           /\ HasCandidate(k)
           /\ res.RegexUsed = Regexes[k].Name
           /\ \A c \in Range(matchResults) : c.Score <= CandidateOf(k).Score

C4_Witness ==
  /\ Returned("ParseFile")
  /\ ~slots.finalRes.err /\ ~slots.fileNameResult.err
  /\ FileRes.RegexUsed # FullRes.RegexUsed
  /\ res.RegexUsed = FullRes.RegexUsed

C6_EarlierRulePreferred ==
  Returned("parseString") =>
    \A i, j \in DOMAIN Regexes :
      (/\ i < j
       /\ HasCandidate(i) /\ HasCandidate(j)
       /\ BonusPoints(i) = BonusPoints(j)) => res.RegexUsed # Regexes[j].Name

C6_Witness ==
  /\ Returned("parseString")
  /\ \E i, j \in DOMAIN Regexes :
       /\ i < j
       /\ HasCandidate(i) /\ HasCandidate(j)
       /\ BonusPoints(i) = BonusPoints(j)
       /\ BonusPoints(i) > 0
       /\ res.RegexUsed = Regexes[i].Name

(***************************************************************************)
(* C7.  parseString returns the NoMatch error exactly when the candidate   *)
(* set is empty, that is when every rule either did not match or was       *)
(* skipped; the result returned with the error is the empty ParseResult,   *)
(* and with at least one candidate no error is returned.                   *)
(***************************************************************************)
C7_NoMatchIffNoCandidate ==
  Returned("parseString") =>
    /\ err <=> matchResults = <<>>
    /\ err <=> \A k \in DOMAIN Regexes : ~Matched(k) \/ ConversionFails(k)
    /\ err => res = EmptyParseResult
    /\ ~err => res \in Range(matchResults)

C7_Witness ==
  /\ Returned("parseString")
  /\ err
  /\ res = EmptyParseResult
  /\ \E k \in DOMAIN Regexes : Matched(k) /\ ConversionFails(k)

(***************************************************************************)
(* C8.  ParseFile never fails: it returns a ParseResult for every path; a  *)
(* parseString that found no match contributes the empty ParseResult for   *)
(* its slot, the merge of the other slots still takes place, and a field   *)
(* no slot resolved is left at its zero value.                             *)
(***************************************************************************)
C8_ParseFileNeverFails ==
  Returned("ParseFile") =>
    /\ DOMAIN res = DOMAIN EmptyParseResult
    /\ res.Quality \in Qualities
    /\ \A sl \in {"fileNameResult", "dirNameResult", "finalRes"} :
         slots[sl].err => slots[sl].res = EmptyParseResult
    /\ \A f \in MergedFields \ {"AirDate"} :
         /\ slots.fileNameResult.err => res[f] = DirRes[f]
         /\ slots.dirNameResult.err => res[f] = FileRes[f]
    /\ (slots.fileNameResult.err /\ slots.dirNameResult.err) =>
         \A f \in MergedFields : IsUnset(f, res[f])
    /\ slots.finalRes.err =>
         /\ res.OriginalName = <<>> /\ res.RegexUsed = "" /\ res.Score = 0
    /\ (slots.fileNameResult.err /\ slots.dirNameResult.err
          /\ slots.finalRes.err) =>
         res = [EmptyParseResult EXCEPT !.Quality = res.Quality]

C8_Witness ==
  /\ Returned("ParseFile")
  /\ slots.fileNameResult.err
  /\ slots.finalRes.err
  /\ ~slots.dirNameResult.err
  /\ res.SeriesName = DirRes.SeriesName /\ res.SeriesName # <<>>
  /\ res.SeasonNumber = DirRes.SeasonNumber /\ res.SeasonNumber # 0

(***************************************************************************)
(* C9.  Field conversion failures are rule-local: a matching rule whose    *)
(* season, episode or absolute-episode capture fails integer conversion,   *)
(* or whose air-date capture gives year 0 or month 0, yields no candidate; *)
(* the other rules are still tried and yield theirs; and the caller sees   *)
(* either the winner among the remaining candidates and no error, or the   *)
(* NoMatch error when none remains.                                        *)
(***************************************************************************)
C9_ConversionFailureIsRuleLocal ==
  pc = "return" =>
    /\ \A k \in DOMAIN Regexes :
         /\ (Matched(k) /\ ConversionFails(k)) => ~HasCandidate(k)
         /\ (Matched(k) /\ ~ConversionFails(k)) => HasCandidate(k)
    /\ Returned("parseString") =>
         /\ err <=> ~\E k \in DOMAIN Regexes : HasCandidate(k)
         /\ ~err => /\ res \in Range(matchResults)
                    /\ \A c \in Range(matchResults) : c.Score <= res.Score

C9_Witness ==
  /\ Returned("parseString")
  /\ ~err
  /\ \E i, j, k \in DOMAIN Regexes :
       /\ i < j /\ j < k
       /\ Matched(i) /\ (SeasonFails(i) \/ EpisodeFails(i)) /\ ~HasCandidate(i)
       /\ Matched(j) /\ AirDateFails(j) /\ ~HasCandidate(j)
       /\ HasCandidate(k) /\ res = CandidateOf(k)

(***************************************************************************)
(* C10.  Leading-zero stripping: a season or episode capture that is a     *)
(* non-empty string of decimal digits does not make its rule skip, and the *)
(* stored SeasonNumber, or first element of EpisodeNumbers, is the decimal *)
(* value of the capture.                                                   *)
(***************************************************************************)
C10_LeadingZerosStripped ==
  pc = "return" =>
    \A k \in DOMAIN Regexes :
      (/\ Matched(k)
       /\ HasCapture(k, "season_num") => IsNumeral(Captures(k)["season_num"])
       /\ HasCapture(k, "ep_num") => IsNumeral(Captures(k)["ep_num"])
       /\ ~ExtraFails(k) /\ ~AbsoluteFails(k) /\ ~AirDateFails(k)) =>
        /\ HasCandidate(k)
        /\ HasCapture(k, "season_num") =>
             CandidateOf(k).SeasonNumber =
               DecimalValue(Captures(k)["season_num"])
        /\ HasCapture(k, "ep_num") =>
             /\ CandidateOf(k).EpisodeNumbers # <<>>
             /\ CandidateOf(k).EpisodeNumbers[1] =
                  DecimalValue(Captures(k)["ep_num"])

(***************************************************************************)
(* C14.  Scoring: the candidate of the rule at catalog index i (position   *)
(* k = i + 1) has score -i plus one point for each of: a series name       *)
(* capture, an alternate series-number capture, a season-number capture,   *)
(* a parsed air date, a release-group capture.  No other capture changes   *)
(* the score, which therefore lies between -i and -i + 5.                  *)
(***************************************************************************)
C14_ScoreIsIndexPlusBonus ==
  pc = "return" =>
    \A k \in DOMAIN Regexes :
      HasCandidate(k) =>
        /\ CandidateOf(k).Score = (0 - (k - 1)) + BonusPoints(k)
        /\ CandidateOf(k).Score >= 0 - (k - 1)
        /\ CandidateOf(k).Score <= (0 - (k - 1)) + 5
        /\ HasCapture(k, "air_date") => CandidateOf(k).AirDate # ZeroTime

C14_Witness ==
  /\ pc = "return"
  /\ \E k, j \in DOMAIN Regexes :
       /\ k > 1 /\ j > k
       /\ HasCandidate(k) /\ BonusPoints(k) = 3
       /\ HasCapture(k, "air_date") /\ HasCapture(k, "release_group")
       /\ CandidateOf(k).Score = 3 - (k - 1)
       /\ HasCandidate(j)
       /\ HasCapture(j, "ep_ab_num") /\ HasCapture(j, "series_num")
       /\ input.name[j].groups["extra_info"] # <<>>
       /\ CandidateOf(j).Score = 1 - (j - 1)

(***************************************************************************)
(* C15.  The Version and ExtraInfo of every result returned by             *)
(* parseString, Parse or ParseFile are empty, and its                      *)
(* AbsoluteEpisodeNumbers holds at most one element: the version group is  *)
(* not extracted, the extra-info capture is not stored and the secondary   *)
(* absolute-episode capture is not read.  The same holds of every          *)
(* candidate.                                                              *)
(***************************************************************************)
C15_VersionAndExtraInfoStayEmpty ==
  pc = "return" =>
    /\ res.Version = <<>>
    /\ res.ExtraInfo = <<>>
    /\ Len(res.AbsoluteEpisodeNumbers) <= 1
    /\ \A c \in Range(matchResults) :
         /\ c.Version = <<>>
         /\ c.ExtraInfo = <<>>
         /\ Len(c.AbsoluteEpisodeNumbers) <= 1

\* A rule that captured a version, extra info and both absolute episode
\* numbers wins, by parseString or Parse or as the file-name slot of ParseFile.
C15_Witness ==
  /\ pc = "return"
  /\ \E k \in DOMAIN Regexes :
       /\ Matched(k)
       /\ "version" \in DOMAIN input.name[k].groups
       /\ input.name[k].groups["version"] # <<>>
       /\ input.name[k].groups["extra_info"] # <<>>
       /\ input.name[k].groups["extra_ab_ep_num"] # <<>>
       /\ HasCandidate(k)
       /\ Len(CandidateOf(k).AbsoluteEpisodeNumbers) = 1
       /\ op \in {"parseString", "Parse"} => res.RegexUsed = Regexes[k].Name
       /\ op = "ParseFile" =>
            res.AbsoluteEpisodeNumbers = CandidateOf(k).AbsoluteEpisodeNumbers

(***************************************************************************)
(* The text functions.                                                     *)
(***************************************************************************)
\* s has the text t somewhere in it.
Contains(s, t) ==
  \E k \in 1..(Len(s) - Len(t) + 1) : SubSeq(s, k, k + Len(t) - 1) = t

\* a and b are the same text up to the case of their letters.
SameFold(a, b) ==
  Len(a) = Len(b) /\ \A k \in DOMAIN a : ToLowerChar(a[k]) = ToLowerChar(b[k])

\* s ends with the text t, up to the case of its letters.
EndsWithFold(s, t) ==
  Len(s) >= Len(t) /\ SameFold(SubSeq(s, Len(s) - Len(t) + 1, Len(s)), t)

\* The sample token: "sample" in any case, at the start of s or after a
\* character that is no letter and no digit, then digits, then a character
\* that is no letter and no digit.
SampleToken(s) ==
  \E a \in DOMAIN s, b \in DOMAIN s :
    /\ b >= a + 6
    /\ SameFold(SubSeq(s, a, a + 5), <<"s", "a", "m", "p", "l", "e">>)
    /\ a > 1 => NonWordOrUnderscore(s[a - 1])
    /\ \A k \in (a + 6)..(b - 1) : s[k] \in Digits
    /\ NonWordOrUnderscore(s[b])

\* The positions of the period that starts the extension of s: the last
\* period of s, if no path separator follows it.
ExtensionDots(s) ==
  {k \in DOMAIN s :
     s[k] = "." /\ \A j \in (k + 1)..Len(s) : s[j] \notin {".", "/"}}

\* s without its extension.
Stripped(s) ==
  IF ExtensionDots(s) = {} THEN s
  ELSE SubSeq(s, 1, (CHOOSE k \in ExtensionDots(s) : TRUE) - 1)

\* The extension of s is in the whitelist, up to the case of its letters.
ExtensionListed(s) ==
  \E k \in ExtensionDots(s), m \in mediaExtensions :
    SameFold(SubSeq(s, k + 1, Len(s)), m)

\* C11: SanitizeSceneName returns a text with none of , : ( ) ! ? ' and no
\* space in it, with no two adjacent periods, and not ending with a period;
\* "Show: Part (2)" gives "Show.Part.2".
C11_SanitizedNameIsClean ==
  Returned("SanitizeSceneName") =>
    /\ Range(res) \cap {",", ":", "(", ")", "!", "?", "'", " "} = {}
    /\ ~Contains(res, <<".", ".">>)
    /\ ~HasSuffix(res, <<".">>)
    /\ input.text = <<"S", "h", "o", "w", ":", " ", "P", "a", "r", "t", " ",
                      "(", "2", ")">>
         => res = <<"S", "h", "o", "w", ".", "P", "a", "r", "t", ".", "2">>

\* C12: CleanSeriesName returns a text that neither starts nor ends with a
\* space or a period, has none of \ / * : " < > | ? in it and no "--" in it,
\* and keeps the periods inside the name.
C12_CleanedNameIsClean ==
  Returned("CleanSeriesName") =>
    /\ res # <<>> => Head(res) \notin {" ", "."}
    /\ res # <<>> => res[Len(res)] \notin {" ", "."}
    /\ Range(res) \cap {"\\", "/", "*", ":", "\"", "<", ">", "|", "?"} = {}
    /\ ~Contains(res, <<"-", "-">>)
    /\ input.text = <<" ", " ", "T", "h", "e", ".", "S", "h", "o", "w", " ",
                      " ">>
         => res = <<"T", "h", "e", ".", "S", "h", "o", "w">>

\* C13: IsMediaFile returns true exactly for a name that has no sample token,
\* does not begin with "._", does not end with "extra" or "extras" in any
\* case once its extension is stripped, and has an extension of the whitelist
\* in any case; "movie-sample.mkv" and "._resource.avi" give false,
\* "show.s01e01.mkv" gives true.
C13_IsMediaFileIffAllFourHold ==
  Returned("IsMediaFile") =>
    /\ res = TRUE <=>
         /\ ~SampleToken(input.text)
         /\ ~(Len(input.text) >= 2 /\ input.text[1] = "." /\ input.text[2] = "_")
         /\ ~EndsWithFold(Stripped(input.text), <<"e", "x", "t", "r", "a">>)
         /\ ~EndsWithFold(Stripped(input.text), <<"e", "x", "t", "r", "a", "s">>)
         /\ ExtensionListed(input.text)
    /\ input.text = <<"m", "o", "v", "i", "e", "-", "s", "a", "m", "p", "l",
                      "e", ".", "m", "k", "v">> => res = FALSE
    /\ input.text = <<".", "_", "r", "e", "s", "o", "u", "r", "c", "e", ".",
                      "a", "v", "i">> => res = FALSE
    /\ input.text = <<"s", "h", "o", "w", ".", "s", "0", "1", "e", "0", "1",
                      ".", "m", "k", "v">> => res = TRUE

\* IsMediaFile accepted a name whose extension is written in capitals.
C13_Witness ==
  /\ Returned("IsMediaFile")
  /\ res = TRUE
  /\ HasSuffix(input.text, <<".", "M", "K", "V">>)
  /\ Len(input.text) > 4

====
